---- MODULE Spec2Model ----
(***************************************************************************)
(* Model of movie_recommendations.py: the catalog (movie_dict), the rating *)
(* table (user_dict), the per-movie similarity caches, and the operations  *)
(* Movie_Recommendations.__init__, predict_rating, predict_ratings and     *)
(* Movie.get_similarity / compute_similarity.                              *)
(*                                                                         *)
(* Numbers: Python floats are modelled by exact rationals <<n, d>> in      *)
(* lowest terms with d > 0 (so 4.5 is <<9, 2>>, the int 0 is <<0, 1>>).    *)
(* Float rounding error is therefore not part of the model; equality of a  *)
(* float with an int key (1.0 == 1) is equality with <<k, 1>>.             *)
(***************************************************************************)
EXTENDS Integers, Sequences, FiniteSets, TLC

VARIABLES
    pc,          \* "new" before Movie_Recommendations(...) ran, "ready" after
    files,       \* the unread rows of movies.csv and training_ratings.csv
    movie_dict,  \* movie id -> Movie object (id, title, users, similarities)
    user_dict,   \* user id -> ordered dict movie id -> rating
    ret          \* the last call: operation, arguments, outcome, value

vars == <<pc, files, movie_dict, user_dict, ret>>

----------------------------------------------------------------------------
(* Bounds and input sets *)

MaxRows == 5        \* rows of the training ratings file
MaxTestRows == 2    \* rows of the test ratings file

UserIds == {10, 11}
MovieIds == {0, 1, 2}

\* rating column of the training file, as written: 3.004, 5.0
RawRatings == {<<751, 250>>, <<5, 1>>}
\* rating column of the test file, as written: 3.46
RawTestRatings == {<<173, 50>>}

TitleOf(m) == IF m = 0 THEN "A" ELSE IF m = 1 THEN "B" ELSE "C"

----------------------------------------------------------------------------
(* Exact arithmetic standing for Python's float arithmetic *)

Abs(x) == IF x < 0 THEN -x ELSE x

RECURSIVE Gcd(_, _)
Gcd(a, b) == IF b = 0 THEN a ELSE Gcd(b, a % b)

Norm(n, d) ==
    LET s == IF d < 0 THEN -1 ELSE 1
        g == Gcd(Abs(n), Abs(d))
    IN  <<(s * n) \div g, (s * d) \div g>>

FromInt(k) == <<k, 1>>
RAdd(p, q) == Norm(p[1] * q[2] + q[1] * p[2], p[2] * q[2])
RSub(p, q) == Norm(p[1] * q[2] - q[1] * p[2], p[2] * q[2])
RMul(p, q) == Norm(p[1] * q[1], p[2] * q[2])
RDiv(p, q) == Norm(p[1] * q[2], p[2] * q[1])
RAbs(p) == <<Abs(p[1]), p[2]>>

\* sum(lst): left to right, starting from the int 0
RECURSIVE Sum(_)
Sum(lst) == IF lst = <<>> THEN FromInt(0)
            ELSE RAdd(Sum(SubSeq(lst, 1, Len(lst) - 1)), lst[Len(lst)])

RECURSIVE Pow10(_)
Pow10(k) == IF k = 0 THEN 1 ELSE 10 * Pow10(k - 1)

\* round(x, ndigits): nearest multiple of 10^-ndigits, ties to even
Round(q, ndigits) ==
    LET n == q[1] * Pow10(ndigits)
        d == q[2]
        fl == n \div d
        twice == 2 * (n - fl * d)
        r == IF twice < d THEN fl
             ELSE IF twice > d THEN fl + 1
             ELSE IF fl % 2 = 0 THEN fl ELSE fl + 1
    IN  Norm(r, Pow10(ndigits))

----------------------------------------------------------------------------
(* Python containers *)

\* no value: the call raised
NoValue == <<>>

\* an insertion-ordered dict: keys in insertion order, and the mapping
EmptyDict == [keys |-> <<>>, val |-> <<>>]
Keys(d) == {d.keys[i] : i \in 1..Len(d.keys)}
DictSet(d, k, v) ==
    IF k \in Keys(d)
    THEN [keys |-> d.keys, val |-> [x \in Keys(d) |-> IF x = k THEN v ELSE d.val[x]]]
    ELSE [keys |-> Append(d.keys, k),
          val |-> [x \in Keys(d) \cup {k} |-> IF x = k THEN v ELSE d.val[x]]]

\* m[k] = v on a mapping whose key order is never observed
MapSet(f, k, v) == [x \in DOMAIN f \cup {k} |-> IF x = k THEN v ELSE f[x]]

Range(s) == {s[i] : i \in 1..Len(s)}

----------------------------------------------------------------------------
(* Loading *)

Movie(id, title) == [id |-> id, title |-> title, users |-> <<>>, similarities |-> <<>>]

RECURSIVE makeMovieDict(_)
makeMovieDict(rows) ==
    IF rows = <<>> THEN <<>>
    ELSE LET line == rows[Len(rows)]
         IN  MapSet(makeMovieDict(SubSeq(rows, 1, Len(rows) - 1)),
                    line[1], Movie(line[1], line[2]))

\* one pass of the loop of makeUserDict over a row <<user, movie, rating>>;
\* st is the pair [md: movie_dict, ud: user_dict]
\* variant: a pair already in the table keeps its first rating
LoadRow_KeepFirst(st, line) ==
    LET userID == line[1]
        movieID == line[2]
        rating == Round(line[3], 2)
        old == IF userID \in DOMAIN st.ud THEN st.ud[userID] ELSE EmptyDict
        ud2 == IF movieID \in Keys(old) THEN st.ud
               ELSE MapSet(st.ud, userID, DictSet(old, movieID, rating))
        mv == st.md[movieID]
        md2 == IF userID \notin Range(mv.users)
               THEN [st.md EXCEPT ![movieID].users = Append(@, userID)]
               ELSE st.md
    IN  [md |-> md2, ud |-> ud2]

LoadRow(st, line) ==
    LET userID == line[1]
        movieID == line[2]
        rating == Round(line[3], 2)
        old == IF userID \in DOMAIN st.ud THEN st.ud[userID] ELSE EmptyDict
        ud2 == MapSet(st.ud, userID, DictSet(old, movieID, rating))
        mv == st.md[movieID]
        md2 == IF userID \notin Range(mv.users)
               THEN [st.md EXCEPT ![movieID].users = Append(@, userID)]
               ELSE st.md
    IN  [md |-> md2, ud |-> ud2]

RECURSIVE makeUserDict(_, _)
makeUserDict(md, rows) ==
    IF rows = <<>> THEN [md |-> md, ud |-> <<>>]
    ELSE LoadRow(makeUserDict(md, SubSeq(rows, 1, Len(rows) - 1)), rows[Len(rows)])

\* the catalog files considered: movies 0..k-1, one row each
MovieFiles == {[i \in 1..k |-> <<i - 1, TitleOf(i - 1)>>] : k \in 0..Cardinality(MovieIds)}

\* a row sorts before another by user id, then by movie id (a rating file
\* exported from a table keyed by user and movie); equal keys may repeat
RowLeq(r1, r2) == r1[1] < r2[1] \/ (r1[1] = r2[1] /\ r1[2] <= r2[2])

\* the files of at most n rows over S whose rows are in that order
RECURSIVE SortedSeqsUpTo(_, _)
SortedSeqsUpTo(S, n) ==
    IF n = 0 THEN {<<>>}
    ELSE LET shorter == SortedSeqsUpTo(S, n - 1)
             longest == {t \in shorter : Len(t) = n - 1}
             After(t) == {x \in S : t = <<>> \/ RowLeq(t[Len(t)], x)}
         IN  shorter \cup UNION {{Append(t, x) : x \in After(t)} : t \in longest}

\* every file of at most n rows over S
RECURSIVE SeqsUpTo(_, _)
SeqsUpTo(S, n) ==
    IF n = 0 THEN {<<>>}
    ELSE LET shorter == SeqsUpTo(S, n - 1)
         IN  shorter \cup {Append(s, x) : s \in {t \in shorter : Len(t) = n - 1}, x \in S}

\* training rows only name movies of the catalog: a row naming another movie
\* makes the constructor fail with KeyError and no object exists
TrainingFiles(mf) ==
    SortedSeqsUpTo(UserIds \X {mf[i][1] : i \in 1..Len(mf)} \X RawRatings, MaxRows)

NoCall == [op |-> "none", args |-> <<>>, outcome |-> "none", val |-> NoValue, computes |-> 0]

Init ==
    /\ pc = "new"
    /\ \E mf \in MovieFiles :
         \E tf \in TrainingFiles(mf) : files = [movies |-> mf, training |-> tf]
    /\ movie_dict = <<>>
    /\ user_dict = <<>>
    /\ ret = NoCall

\* Movie_Recommendations.__init__: both files are read to their end
Construct ==
    /\ pc = "new"
    /\ LET st == makeUserDict(makeMovieDict(files.movies), files.training)
       IN  /\ movie_dict' = st.md
           /\ user_dict' = st.ud
    /\ files' = [movies |-> <<>>, training |-> <<>>]
    /\ pc' = "ready"
    /\ UNCHANGED ret

----------------------------------------------------------------------------
(* class Movie *)

\* diff_lst: |rating(x, a) - rating(x, b)| for each user x of usr_both (a
\* set: its iteration order is not fixed, and the exact sum does not depend
\* on it)
\* variant: the differences without abs
RECURSIVE DiffLst_NoAbs(_, _, _, _)
DiffLst_NoAbs(ud, both, a, b) ==
    IF both = {} THEN <<>>
    ELSE LET x == CHOOSE y \in both : TRUE
             diff == RSub(ud[x].val[a], ud[x].val[b])
         IN  Append(DiffLst_NoAbs(ud, both \ {x}, a, b), diff)

RECURSIVE DiffLst(_, _, _, _)
DiffLst(ud, both, a, b) ==
    IF both = {} THEN <<>>
    ELSE LET x == CHOOSE y \in both : TRUE
             diff == RSub(ud[x].val[a], ud[x].val[b])
         IN  Append(DiffLst(ud, both \ {x}, a, b), RAbs(diff))

\* variant: normalised by 5 instead of 4.5
compute_similarity_Scale5(md, ud, self, other_movie_id) ==
    LET usr_both == Range(md[self].users) \cap Range(md[other_movie_id].users)
        diff_lst == DiffLst(ud, usr_both, self, other_movie_id)
        diffs_avg == RDiv(Sum(diff_lst), FromInt(Len(diff_lst)))
    IN  IF Cardinality(usr_both) = 0 THEN FromInt(0)
        ELSE RSub(FromInt(1), RDiv(diffs_avg, <<5, 1>>))

compute_similarity(md, ud, self, other_movie_id) ==
    LET usr_both == Range(md[self].users) \cap Range(md[other_movie_id].users)
        diff_lst == DiffLst(ud, usr_both, self, other_movie_id)
        diffs_avg == RDiv(Sum(diff_lst), FromInt(Len(diff_lst)))
    IN  IF Cardinality(usr_both) = 0 THEN FromInt(0)
        ELSE RSub(FromInt(1), RDiv(diffs_avg, <<9, 2>>))

\* "similarity in d": the float equals one of the int keys of d
InKeys(similarity, d) == \E k \in DOMAIN d : similarity = FromInt(k)

\* variant: only the self movie is updated
StoreSimilarity_OneSided(md, self, other_movie_id, similarity) ==
    [md EXCEPT ![self].similarities = MapSet(@, other_movie_id, similarity)]

\* variant: each cache is replaced by the one new entry
StoreSimilarity_Reset(md, self, other_movie_id, similarity) ==
    LET md1 == [md EXCEPT ![self].similarities = MapSet(<<>>, other_movie_id, similarity)]
    IN  [md1 EXCEPT ![other_movie_id].similarities = MapSet(<<>>, self, similarity)]

\* the two assignments of the else branch of get_similarity
StoreSimilarity(md, self, other_movie_id, similarity) ==
    LET md1 == [md EXCEPT ![self].similarities = MapSet(@, other_movie_id, similarity)]
    IN  [md1 EXCEPT ![other_movie_id].similarities = MapSet(@, self, similarity)]

\* result: the outcome, the value returned, the catalog afterwards and the
\* number of compute_similarity runs
get_similarity(md, ud, self, other_movie_id) ==
    IF other_movie_id \notin DOMAIN md
    THEN [outcome |-> "BadInputError", val |-> NoValue, md |-> md, computes |-> 0]
    ELSE LET similarity == compute_similarity(md, ud, self, other_movie_id)
         IN  IF /\ InKeys(similarity, md[self].similarities)
                /\ InKeys(similarity, md[other_movie_id].similarities)
             THEN [outcome |-> "ok", val |-> similarity, md |-> md, computes |-> 1]
             ELSE [outcome |-> "ok", val |-> similarity,
                   md |-> StoreSimilarity(md, self, other_movie_id, similarity),
                   computes |-> 1]

----------------------------------------------------------------------------
(* class Movie_Recommendations *)

\* the loop of predict_rating over the first n movies of the user's dict;
\* result: the catalog afterwards, sim_lst and rxs_lst
RECURSIVE RatingLoop(_, _, _, _, _)
RatingLoop(md, ud, user_id, movie_id, n) ==
    IF n = 0 THEN [md |-> md, sim_lst |-> <<>>, rxs_lst |-> <<>>]
    ELSE LET before == RatingLoop(md, ud, user_id, movie_id, n - 1)
             movie == ud[user_id].keys[n]
             rate_x == ud[user_id].val[movie]
             call == get_similarity(before.md, ud, movie, movie_id)
             sim_x == call.val
         IN  [md |-> call.md,
              sim_lst |-> Append(before.sim_lst, sim_x),
              rxs_lst |-> Append(before.rxs_lst, RMul(rate_x, sim_x))]

\* variant: divided by the number of similarities
Prediction_Mean(rxs_lst, sim_lst) ==
    IF Sum(sim_lst) = FromInt(0) THEN <<5, 2>>
    ELSE RDiv(Sum(rxs_lst), FromInt(Len(sim_lst)))

\* the value returned after the loop
Prediction(rxs_lst, sim_lst) ==
    IF Sum(sim_lst) = FromInt(0) THEN <<5, 2>>
    ELSE RDiv(Sum(rxs_lst), Sum(sim_lst))

\* predict_rating once both ids are known
PredictKnown(md, ud, user_id, movie_id) ==
    IF user_id \in Range(md[movie_id].users)
    THEN IF movie_id \in Keys(ud[user_id])
         THEN [outcome |-> "ok", val |-> ud[user_id].val[movie_id], md |-> md,
               computes |-> 0]
         ELSE [outcome |-> "KeyError", val |-> NoValue, md |-> md, computes |-> 0]
    ELSE LET n == Len(ud[user_id].keys)
             loop == RatingLoop(md, ud, user_id, movie_id, n)
         IN  [outcome |-> "ok", val |-> Prediction(loop.rxs_lst, loop.sim_lst),
              md |-> loop.md, computes |-> n]

\* variant: an unknown user gets the fallback rating
predict_rating_DefaultUser(md, ud, user_id, movie_id) ==
    IF movie_id \notin DOMAIN md
    THEN [outcome |-> "BadInputError", val |-> NoValue, md |-> md, computes |-> 0]
    ELSE IF user_id \notin DOMAIN ud
    THEN [outcome |-> "ok", val |-> <<5, 2>>, md |-> md, computes |-> 0]
    ELSE PredictKnown(md, ud, user_id, movie_id)

predict_rating(md, ud, user_id, movie_id) ==
    IF user_id \notin DOMAIN ud \/ movie_id \notin DOMAIN md
    THEN [outcome |-> "BadInputError", val |-> NoValue, md |-> md, computes |-> 0]
    ELSE PredictKnown(md, ud, user_id, movie_id)

\* the loop of predict_ratings over the first n rows <<user, movie, rating>>
\* of the test file; an exception ends the loop and discards the list
RECURSIVE predict_ratings(_, _, _, _)
predict_ratings(md, ud, rows, n) ==
    IF n = 0 THEN [outcome |-> "ok", val |-> <<>>, md |-> md, computes |-> 0]
    ELSE LET before == predict_ratings(md, ud, rows, n - 1)
             line == rows[n]
             user_id == line[1]
         IN  IF before.outcome # "ok" THEN before
             ELSE IF line[2] \notin DOMAIN before.md
             THEN [outcome |-> "KeyError", val |-> NoValue, md |-> before.md,
                   computes |-> before.computes]
             ELSE LET movie == before.md[line[2]].title
                      test_rating == Round(line[3], 1)
                      call == predict_rating(before.md, ud, user_id, line[2])
                  IN  IF call.outcome # "ok"
                      THEN [outcome |-> call.outcome, val |-> NoValue, md |-> call.md,
                            computes |-> before.computes + call.computes]
                      ELSE [outcome |-> "ok",
                            val |-> Append(before.val,
                                           <<user_id, movie, call.val, test_rating>>),
                            md |-> call.md,
                            computes |-> before.computes + call.computes]

----------------------------------------------------------------------------
(* Calls on the constructed object *)

Returned(op, args, call) ==
    /\ movie_dict' = call.md
    /\ ret' = [op |-> op, args |-> args, outcome |-> call.outcome, val |-> call.val,
               computes |-> call.computes]
    /\ UNCHANGED <<pc, files, user_dict>>

PredictRating ==
    /\ pc = "ready"
    /\ \E user_id \in UserIds, movie_id \in MovieIds :
         Returned("predict_rating", <<user_id, movie_id>>,
                  predict_rating(movie_dict, user_dict, user_id, movie_id))

\* movie_dict[self].get_similarity(other_movie_id, movie_dict, user_dict)
GetSimilarity ==
    /\ pc = "ready"
    /\ \E self \in DOMAIN movie_dict, other_movie_id \in MovieIds :
         Returned("get_similarity", <<self, other_movie_id>>,
                  get_similarity(movie_dict, user_dict, self, other_movie_id))

TestFiles == SeqsUpTo(UserIds \X MovieIds \X RawTestRatings, MaxTestRows)

PredictRatings ==
    /\ pc = "ready"
    /\ \E rows \in TestFiles :
         Returned("predict_ratings", rows,
                  predict_ratings(movie_dict, user_dict, rows, Len(rows)))

Next == Construct \/ PredictRating \/ GetSimilarity
Spec == Init /\ [][Next]_vars

\* The batch specification: catalogs that leave a movie id of the test rows
\* unknown, and all four operations.  A batch is not started right after a
\* batch: no operation reads ret, and every catalog and cache state a batch
\* can produce is also produced by the predict_rating calls of its rows, so
\* every state of the data a batch can start from is still covered.
InitBatch == Init /\ Len(files.movies) < Cardinality(MovieIds)
PredictRatingsOnce == ret.op # "predict_ratings" /\ PredictRatings
NextBatch == Construct \/ PredictRating \/ GetSimilarity \/ PredictRatingsOnce
SpecBatch == InitBatch /\ [][NextBatch]_vars

----------------------------------------------------------------------------
(* Properties *)

Ready == pc = "ready"
Catalog == DOMAIN movie_dict
Sims(m) == movie_dict[m].similarities
Raters(m) == Range(movie_dict[m].users)
Rated(u) == Keys(user_dict[u])
Called(op) == ret.op = op
SomeCache == \E m \in Catalog : DOMAIN Sims(m) # {}

\* C1: in every reachable state the similarity caches are symmetric: m1 is a
\* key of m2's similarities exactly when m2 is a key of m1's, with the same
\* value, and only movies of the catalog are keys.
SymmetricCaches ==
    \A m1 \in Catalog :
        /\ DOMAIN Sims(m1) \subseteq Catalog
        /\ \A m2 \in Catalog :
             /\ (m1 \in DOMAIN Sims(m2)) <=> (m2 \in DOMAIN Sims(m1))
             /\ m1 \in DOMAIN Sims(m2) => Sims(m2)[m1] = Sims(m1)[m2]

\* a cache entry between two different movies exists, with a value that is
\* neither 0 nor 1
SymmetricCachesWitness ==
    /\ Ready
    /\ \E m1, m2 \in Catalog :
         /\ m1 # m2
         /\ m1 \in DOMAIN Sims(m2)
         /\ Sims(m2)[m1] \notin {FromInt(0), FromInt(1)}

\* C2: a get_similarity call for a pair whose similarity is already stored
\* returns it without running compute_similarity.
CachedNotRecomputed ==
    [][(ret'.op = "get_similarity" /\ ret'.args[2] \in Catalog
          /\ ret'.args[2] \in DOMAIN Sims(ret'.args[1]))
       => ret'.computes = 0]_vars

\* C3: after get_similarity(a, b) returned s, a's similarities maps b to s
\* and b's similarities maps a to s.
ReturnedIsStored ==
    (Called("get_similarity") /\ ret.outcome = "ok") =>
        LET a == ret.args[1]
            b == ret.args[2]
        IN  /\ b \in DOMAIN Sims(a) /\ Sims(a)[b] = ret.val
            /\ a \in DOMAIN Sims(b) /\ Sims(b)[a] = ret.val

\* C4: predict_rating with an unknown user or movie, and get_similarity with
\* an unknown other movie, raise BadInputError, return nothing, compute
\* nothing and leave every cache as it was.
BadInput(op, args) ==
    \/ op = "predict_rating" /\ (args[1] \notin DOMAIN user_dict \/ args[2] \notin Catalog)
    \/ op = "get_similarity" /\ args[2] \notin Catalog

BadInputRaisesFirst ==
    [][BadInput(ret'.op, ret'.args) =>
         /\ ret'.outcome = "BadInputError"
         /\ ret'.val = NoValue
         /\ ret'.computes = 0
         /\ movie_dict' = movie_dict]_vars

\* predict_rating was called for an unknown user and a known movie, while
\* caches held entries
BadInputWitness ==
    /\ Ready /\ Called("predict_rating") /\ ret.outcome = "BadInputError"
    /\ ret.args[1] \notin DOMAIN user_dict /\ ret.args[2] \in Catalog
    /\ SomeCache

\* C5: predict_ratings on a file with a row whose user or movie is unknown
\* fails with BadInputError and returns no list.
HasBadRow(rows) ==
    \E i \in 1..Len(rows) : rows[i][1] \notin DOMAIN user_dict \/ rows[i][2] \notin Catalog

BatchFailsWithBadInputError ==
    (Called("predict_ratings") /\ HasBadRow(ret.args)) =>
        (ret.outcome = "BadInputError" /\ ret.val = NoValue)

\* C6: the table holds, for each pair, the rating of the last row loaded for
\* it; predict_rating for a user who is among the movie's raters returns that
\* stored rating, raises nothing, computes no similarity and changes no cache.
LastRowOf(rows, u, m) ==
    CHOOSE i \in 1..Len(rows) :
        /\ rows[i][1] = u /\ rows[i][2] = m
        /\ \A j \in (i + 1)..Len(rows) : ~(rows[j][1] = u /\ rows[j][2] = m)

LoadedFrom(rows, md, ud) ==
    /\ DOMAIN ud = {rows[i][1] : i \in 1..Len(rows)}
    /\ \A m \in DOMAIN md :
         Range(md[m].users) = {rows[i][1] : i \in {j \in 1..Len(rows) : rows[j][2] = m}}
    /\ \A i \in 1..Len(rows) :
         LET u == rows[i][1]
             m == rows[i][2]
         IN  /\ m \in Keys(ud[u])
             /\ ud[u].val[m] = Round(rows[LastRowOf(rows, u, m)][3], 2)

ExactRecall ==
    [][/\ (pc = "new" /\ pc' = "ready") => LoadedFrom(files.training, movie_dict', user_dict')
       /\ (/\ ret'.op = "predict_rating"
           /\ ret'.args[1] \in DOMAIN user_dict
           /\ ret'.args[2] \in Catalog
           /\ ret'.args[1] \in Raters(ret'.args[2]))
          => /\ ret'.outcome = "ok"
             /\ ret'.val = user_dict[ret'.args[1]].val[ret'.args[2]]
             /\ ret'.computes = 0
             /\ movie_dict' = movie_dict]_vars

\* predict_rating returned the stored 3.0 of a user who rated the movie,
\* while caches held entries
ExactRecallWitness ==
    /\ Ready /\ Called("predict_rating") /\ ret.outcome = "ok"
    /\ ret.args[1] \in DOMAIN user_dict /\ ret.args[2] \in Catalog
    /\ ret.args[1] \in Raters(ret.args[2])
    /\ ret.val = FromInt(3)
    /\ SomeCache

\* the similarity as the rating table defines it: 0 without co-raters, else
\* 1 - (mean absolute difference of the co-raters' ratings) / 4.5
CoRaters(a, b) == {u \in DOMAIN user_dict : a \in Rated(u) /\ b \in Rated(u)}

RECURSIVE TotalAbsDiff(_, _, _)
TotalAbsDiff(us, a, b) ==
    IF us = {} THEN FromInt(0)
    ELSE LET u == CHOOSE x \in us : TRUE
             ra == user_dict[u].val[a]
             rb == user_dict[u].val[b]
             d == IF ra[1] * rb[2] >= rb[1] * ra[2] THEN RSub(ra, rb) ELSE RSub(rb, ra)
         IN  RAdd(d, TotalAbsDiff(us \ {u}, a, b))

SimilarityOf(a, b) ==
    LET co == CoRaters(a, b)
    IN  IF co = {} THEN FromInt(0)
        ELSE RSub(FromInt(1),
                  RDiv(RDiv(TotalAbsDiff(co, a, b), FromInt(Cardinality(co))), <<9, 2>>))

RECURSIVE SumOver(_, _, _, _)
SumOver(ms, u, t, weighted) ==
    IF ms = {} THEN FromInt(0)
    ELSE LET m == CHOOSE x \in ms : TRUE
             term == IF weighted THEN RMul(user_dict[u].val[m], SimilarityOf(m, t))
                     ELSE SimilarityOf(m, t)
         IN  RAdd(term, SumOver(ms \ {m}, u, t, weighted))

\* C7: predict_rating(u, t) for a known user u who did not rate the known
\* movie t returns 2.5 when the similarities of u's movies to t sum to 0, and
\* otherwise the similarity-weighted mean of u's ratings; the divisor is
\* never 0.
WeightedPrediction ==
    (/\ Called("predict_rating")
     /\ ret.args[1] \in DOMAIN user_dict /\ ret.args[2] \in Catalog
     /\ ret.args[1] \notin Raters(ret.args[2])) =>
        LET u == ret.args[1]
            t == ret.args[2]
            den == SumOver(Rated(u), u, t, FALSE)
            num == SumOver(Rated(u), u, t, TRUE)
        IN  /\ ret.outcome = "ok"
            /\ ret.val[2] # 0
            /\ den = FromInt(0) => ret.val = <<5, 2>>
            /\ den # FromInt(0) => ret.val = RDiv(num, den)

\* a prediction from two rated movies with different nonzero similarities
\* to the target
WeightedPredictionWitness ==
    /\ Ready /\ Called("predict_rating") /\ ret.outcome = "ok"
    /\ ret.args[1] \in DOMAIN user_dict /\ ret.args[2] \in Catalog
    /\ ret.args[1] \notin Raters(ret.args[2])
    /\ \E m1, m2 \in Rated(ret.args[1]) :
         /\ SimilarityOf(m1, ret.args[2]) # FromInt(0)
         /\ SimilarityOf(m2, ret.args[2]) # FromInt(0)
         /\ SimilarityOf(m1, ret.args[2]) # SimilarityOf(m2, ret.args[2])
         /\ user_dict[ret.args[1]].val[m1] # user_dict[ret.args[1]].val[m2]

\* C8: the value get_similarity returns on a with b is the value the call on
\* b with a returns, and it is the value an earlier call for the pair stored,
\* whatever was called in between.
SimResult(md, ud, a, b) == get_similarity(md, ud, a, b).val

SimilaritySymmetricStable ==
    /\ [](Called("get_similarity") /\ ret.outcome = "ok" =>
            ret.val = SimResult(movie_dict, user_dict, ret.args[2], ret.args[1]))
    /\ [][(ret'.op = "get_similarity" /\ ret'.outcome = "ok") =>
            LET a == ret'.args[1]
                b == ret'.args[2]
            IN  /\ b \in DOMAIN Sims(a) => ret'.val = Sims(a)[b]
                /\ a \in DOMAIN Sims(b) => ret'.val = Sims(b)[a]]_vars

\* get_similarity(a, b) for two different movies returned a value that is
\* neither 0 nor 1 and that the cache of b already held for a
SimilaritySymmetricWitness ==
    /\ Ready /\ Called("get_similarity") /\ ret.outcome = "ok"
    /\ ret.args[1] # ret.args[2]
    /\ ret.val \notin {FromInt(0), FromInt(1)}
    /\ ret.args[1] \in DOMAIN Sims(ret.args[2])
    /\ \E m \in Catalog \ {ret.args[1], ret.args[2]} : DOMAIN Sims(m) # {}

\* C9: no call changes the ids or titles of the catalog, a movie's raters or
\* the rating table, and a call only adds cache entries: an entry once
\* present stays, with its value.
FrameAndMonotoneCaches ==
    [][Ready =>
         /\ user_dict' = user_dict
         /\ DOMAIN movie_dict' = Catalog
         /\ \A m \in Catalog :
              /\ movie_dict'[m].id = movie_dict[m].id
              /\ movie_dict'[m].title = movie_dict[m].title
              /\ movie_dict'[m].users = movie_dict[m].users
              /\ DOMAIN Sims(m) \subseteq DOMAIN movie_dict'[m].similarities
              /\ \A k \in DOMAIN Sims(m) : movie_dict'[m].similarities[k] = Sims(m)[k]]_vars

\* a batch of as many rows as a test file may hold returned its list after
\* computing similarities, and a movie's cache holds more than one entry
FrameWitness ==
    /\ Ready /\ Called("predict_ratings") /\ ret.outcome = "ok" /\ Len(ret.val) = MaxTestRows
    /\ ret.computes > 0
    /\ \E m \in Catalog : Cardinality(DOMAIN Sims(m)) > 1

\* C10: the similarity returned for two known movies is 0 when no user rated
\* both, and otherwise 1 - (mean absolute rating difference of the users who
\* rated both) / 4.5; the similarity of a rated movie to itself is 1.
SimilarityValue ==
    (Called("get_similarity") /\ ret.args[2] \in Catalog) =>
        LET a == ret.args[1]
            b == ret.args[2]
        IN  /\ ret.outcome = "ok"
            /\ CoRaters(a, b) = {} => ret.val = FromInt(0)
            /\ ret.val = SimilarityOf(a, b)
            /\ (a = b /\ Raters(a) # {}) => ret.val = FromInt(1)

\* get_similarity returned 5/9 for two movies that two users rated
SimilarityValueWitness ==
    /\ Ready /\ Called("get_similarity") /\ ret.outcome = "ok"
    /\ Cardinality(CoRaters(ret.args[1], ret.args[2])) = 2
    /\ ret.val = <<5, 9>>
====
